---- MODULE Spec2Model ----
(***************************************************************************)
(* A model of strava_daily_tracker.py: one invocation of the script        *)
(* (load_config, refresh_access_token, the fetch loop, the update loop,    *)
(* the plot loop, the summary) against the master CSV log it finds on      *)
(* disk.                                                                   *)
(*                                                                         *)
(* Dates are day numbers (date.today() and the parsed 'date' column).  A   *)
(* CSV cell that may be empty is a sequence: <<>> is NaN / a missing       *)
(* column, <<n>> is the number n.  The segment_name column and the         *)
(* athlete counter are written but never read back by the code modelled    *)
(* here and are left out of a snapshot and of a row.  The file system is   *)
(* taken to accept the write of lines 291-295.                             *)
(***************************************************************************)
EXTENDS Integers, Sequences, FiniteSets, TLC

VARIABLES
    pc,                        \* position of the script in its __main__ block
    environ,                   \* os.environ and config.ini as found at start
    today,                     \* datetime.date.today()
    segment_ids_to_process,    \* app_config['segment_id_list']
    access_token,              \* result of refresh_access_token
    idx,                       \* position of the running for-loop
    all_segment_data_current,  \* snapshots fetched in this run
    processed_count,
    error_count,
    log_kind,                  \* what all_segments_log.csv is on disk
    log_rows,                  \* its data rows, in file order
    plots,                     \* charts saved by generate_plot, in order
    exit_code,                 \* process exit status, <<>> while running
    log0,                      \* history: the log as found at start
    fetch_log,                 \* history: the API's answer to each fetch, by position
    calls,                     \* history: the update_master_log calls of the run
    runs                       \* two invocations of the script at once (SpecOverlap)

vars == << pc, environ, today, segment_ids_to_process, access_token, idx,
           all_segment_data_current, processed_count, error_count,
           log_kind, log_rows, plots, exit_code, log0, fetch_log, calls, runs >>

(***************************************************************************)
(* Bounds of the model.                                                    *)
(***************************************************************************)
MaxCount == 3       \* largest cumulative counter the API reports
MaxDay == 4         \* last day the clock reaches

NaN == << >>

Row(sid, d, total, daily) ==
    [ segment_id |-> sid, date |-> d, total_attempts_on_date |-> total,
      daily_attempts |-> daily ]

(***************************************************************************)
(* load_config.  An environment variable that is unset or empty is "" (a   *)
(* falsy value for all([...])); a comma-separated id list is the sequence  *)
(* of its pieces as split(',') returns them, << >> when unset or empty.    *)
(* config.ini is absent, unreadable for configparser, or a set of          *)
(* sections; the [Strava] section is a record of the keys it holds.        *)
(***************************************************************************)
required_keys == { "client_id", "client_secret", "refresh_token", "segment_ids" }

Strip(tok) ==
    CASE tok = " 7" -> "7"
      [] tok = "7 " -> "7"
      [] tok = " "  -> ""
      [] OTHER      -> tok

RECURSIVE ParseSegmentIds(_)
ParseSegmentIds(raw) ==
    IF raw = << >> THEN << >>
    ELSE IF Strip(Head(raw)) # ""
         THEN << Strip(Head(raw)) >> \o ParseSegmentIds(Tail(raw))
         ELSE ParseSegmentIds(Tail(raw))

EnvAll(env) ==
    /\ env.STRAVA_CLIENT_ID # ""
    /\ env.STRAVA_CLIENT_SECRET # ""
    /\ env.STRAVA_REFRESH_TOKEN # ""
    /\ env.STRAVA_SEGMENT_IDS # << >>

\* The raw id list load_config settles on; ok is FALSE where it calls
\* sys.exit(1) before parsing.
ConfigSource(e) ==
    IF EnvAll(e.env) THEN [ ok |-> TRUE, raw |-> e.env.STRAVA_SEGMENT_IDS ]
    ELSE IF e.file.kind # "absent"
    THEN IF e.file.kind = "broken" THEN [ ok |-> FALSE, raw |-> << >> ]
         ELSE IF "Strava" \notin DOMAIN e.file.sections
              THEN [ ok |-> FALSE, raw |-> << >> ]
         ELSE IF ~ (required_keys \subseteq DOMAIN e.file.sections.Strava)
              THEN [ ok |-> FALSE, raw |-> << >> ]
         ELSE [ ok |-> TRUE, raw |-> e.file.sections.Strava.segment_ids ]
    ELSE [ ok |-> FALSE, raw |-> << >> ]

\* << the parsed list >> or << >> for sys.exit(1).
LoadConfigResult(e) ==
    LET src == ConfigSource(e) IN
    IF ~ src.ok THEN << >>
    ELSE IF ParseSegmentIds(src.raw) = << >> THEN << >>
    ELSE << ParseSegmentIds(src.raw) >>

NoEnv ==
    [ STRAVA_CLIENT_ID |-> "", STRAVA_CLIENT_SECRET |-> "",
      STRAVA_REFRESH_TOKEN |-> "", STRAVA_SEGMENT_IDS |-> << >> ]

FullEnv(ids) ==
    [ STRAVA_CLIENT_ID |-> "c", STRAVA_CLIENT_SECRET |-> "s",
      STRAVA_REFRESH_TOKEN |-> "r", STRAVA_SEGMENT_IDS |-> ids ]

NoFile == [ kind |-> "absent" ]

IniFile(sections) == [ kind |-> "ini", sections |-> sections ]

StravaSection(ids) ==
    [ client_id |-> "c", client_secret |-> "s", refresh_token |-> "r",
      segment_ids |-> ids ]

\* The configurations a run starts from.
Environments ==
    { [ env |-> FullEnv(<< "7", "9", "07" >>), file |-> NoFile ],
      [ env |-> [ FullEnv(<< "9" >>) EXCEPT !.STRAVA_CLIENT_SECRET = "" ],
        file |-> IniFile([ Strava |-> StravaSection(<< " 7", "", "7 " >>) ]) ],
      [ env |-> NoEnv, file |-> NoFile ],
      [ env |-> NoEnv, file |-> [ kind |-> "broken" ] ],
      [ env |-> NoEnv, file |-> IniFile([ Other |-> [ client_id |-> "c" ] ]) ],
      [ env |-> NoEnv,
        file |-> IniFile([ Strava |-> [ client_id |-> "c", client_secret |-> "s",
                                        segment_ids |-> << "7" >> ] ]) ],
      [ env |-> FullEnv(<< " ", "" >>), file |-> NoFile ] }

load_config ==
    /\ pc = "load_config"
    /\ LET res == LoadConfigResult(environ) IN
       IF res = << >>
       THEN /\ pc' = "exit"
            /\ exit_code' = << 1 >>
            /\ UNCHANGED segment_ids_to_process
       ELSE /\ pc' = "refresh"
            /\ segment_ids_to_process' = res[1]
            /\ UNCHANGED exit_code
    /\ UNCHANGED << environ, today, access_token, idx, all_segment_data_current,
                    processed_count, error_count, log_kind, log_rows, plots,
                    log0, runs, fetch_log, calls >>

(***************************************************************************)
(* refresh_access_token.  The exchange succeeds, or raises a               *)
(* RequestException (transport failure, timeout, raise_for_status on a     *)
(* non-2xx answer), which the function turns into sys.exit(1), or returns  *)
(* a body without 'access_token': the KeyError of line 111 is not caught   *)
(* and ends the interpreter with status 1.                                 *)
(***************************************************************************)
RefreshOutcomes == { "ok", "request_exception", "key_error" }

\* Mutant of RefreshResult: a failed refresh returns None to the caller
\* instead of ending the process.
RefreshResult_ReturnsNone(outcome) ==
    IF outcome = "ok" THEN << "token" >> ELSE << "None" >>

\* << the token >>, or << >> where the process ends with status 1.
RefreshResult(outcome) ==
    IF outcome = "ok" THEN << "token" >> ELSE << >>

refresh_access_token ==
    /\ pc = "refresh"
    /\ \E outcome \in RefreshOutcomes :
         IF RefreshResult(outcome) # << >>
         THEN /\ access_token' = RefreshResult(outcome)
              /\ pc' = "fetch"
              /\ idx' = 1
              /\ UNCHANGED exit_code
         ELSE /\ pc' = "exit"
              /\ exit_code' = << 1 >>
              /\ UNCHANGED << access_token, idx >>
    /\ UNCHANGED << environ, today, segment_ids_to_process,
                    all_segment_data_current, processed_count, error_count,
                    log_kind, log_rows, plots, log0, runs, fetch_log, calls >>

(***************************************************************************)
(* get_segment_data and the fetch loop of __main__.  The API answers with  *)
(* a segment body (effort_count present or missing), or the request fails  *)
(* with a RequestException (the function returns None), or something else  *)
(* is raised (a body that is no JSON object) and caught by the loop.       *)
(***************************************************************************)
Responses ==
    { [ kind |-> "json", effort_count |-> << c >> ] : c \in 0..MaxCount }
    \cup { [ kind |-> "json", effort_count |-> NaN ],
           [ kind |-> "request_exception" ],
           [ kind |-> "exception" ] }

\* Mutant of get_segment_data: a failed request yields a snapshot of
\* defaults instead of None.
get_segment_data_DefaultsOnFailure(segment_id, response) ==
    IF response.kind = "exception" THEN [ outcome |-> "raise" ]
    ELSE [ outcome |-> "ok",
           segment_data |->
             [ id |-> segment_id,
               effort_count |-> IF response.kind = "json" /\ response.effort_count # NaN
                                THEN response.effort_count[1] ELSE 0 ] ]

\* outcome "ok" with the snapshot, "none" for a returned None, "raise" for
\* an exception that leaves the function.
get_segment_data(segment_id, response) ==
    CASE response.kind = "json" ->
           [ outcome |-> "ok",
             segment_data |->
               [ id |-> segment_id,
                 effort_count |-> IF response.effort_count = NaN THEN 0
                                  ELSE response.effort_count[1] ] ]
      [] response.kind = "request_exception" -> [ outcome |-> "none" ]
      [] OTHER -> [ outcome |-> "raise" ]

fetch_segment ==
    /\ pc = "fetch"
    /\ idx <= Len(segment_ids_to_process)
    /\ \E response \in Responses :
         LET res == get_segment_data(segment_ids_to_process[idx], response)
             fetched == IF res.outcome = "ok"
                        THEN Append(all_segment_data_current, res.segment_data)
                        ELSE all_segment_data_current
         IN /\ all_segment_data_current' = fetched
            /\ processed_count' = IF res.outcome = "ok"
                                  THEN processed_count + 1 ELSE processed_count
            /\ error_count' = IF res.outcome = "ok"
                              THEN error_count ELSE error_count + 1
            /\ fetch_log' = Append(fetch_log, response.kind)
            /\ IF idx < Len(segment_ids_to_process)
               THEN /\ idx' = idx + 1
                    /\ pc' = "fetch"
               ELSE /\ idx' = 1
                    /\ pc' = IF fetched = << >> THEN "summary" ELSE "update"
    /\ UNCHANGED << environ, today, segment_ids_to_process, access_token,
                    log_kind, log_rows, plots, exit_code, log0, runs, calls >>

(***************************************************************************)
(* update_master_log.                                                      *)
(*                                                                         *)
(* The file on disk is one of                                              *)
(*   absent    no file                                                     *)
(*   zero      a file of size 0                                            *)
(*   blank     a file pandas reads as EmptyDataError                       *)
(*   csv       the header and the rows (none: header only)                 *)
(*   keyerror  parseable, but without a segment_id column (KeyError)       *)
(*   corrupt   read_csv or the date handling raises another exception      *)
(***************************************************************************)
\* int(segment_data['id']): << n >>, or << >> for ValueError.
IntOf(id) ==
    CASE id = "7"  -> << 7 >>
      [] id = "07" -> << 7 >>
      [] id = "9"  -> << 9 >>
      [] OTHER     -> << >>

\* Mutant of SegmentDf: the filter on the segment id is dropped.
SegmentDf_AnySegment(rows, sid) == 1..Len(rows)

\* df[df['segment_id'].notna() & (df['segment_id'] == segment_id_int)]
SegmentDf(rows, sid) == { k \in 1..Len(rows) : rows[k].segment_id = sid }

\* Mutant of LastEntries: the last row of the segment in file order.
LastEntries_FileOrder(rows, sid) ==
    { k \in SegmentDf(rows, sid) : \A j \in SegmentDf(rows, sid) : j <= k }

\* Mutant of LastEntries: rows of today's date are left aside when an
\* earlier day has a row (the delta is taken against the previous day).
LastEntries_BeforeToday(rows, sid) ==
    LET earlier == { k \in SegmentDf(rows, sid) : rows[k].date < today }
        among == IF earlier = { } THEN SegmentDf(rows, sid) ELSE earlier
    IN { k \in among : \A j \in among : rows[j].date <= rows[k].date }

\* The rows sort_values(by='date') may leave last: the sort is not stable,
\* so any row of the greatest date may be iloc[-1].
LastEntries(rows, sid) ==
    { k \in SegmentDf(rows, sid) :
        \A j \in SegmentDf(rows, sid) : rows[j].date <= rows[k].date }

\* Lines 202-211.
LastTotalAttempts(last_entry) ==
    IF last_entry.total_attempts_on_date # NaN
    THEN last_entry.total_attempts_on_date[1]
    ELSE 0

\* Mutant of ReadHistory: a log that cannot be parsed counts as a history
\* with a baseline of 0 instead of a first entry.
ReadHistory_UnparsedNotFirst(kind, rows, sid, k) ==
    CASE kind \in { "absent", "zero" } ->
           [ is_first_entry_for_segment |-> TRUE, last_total_attempts |-> 0,
             file_is_empty |-> TRUE ]
      [] kind = "blank" ->
           [ is_first_entry_for_segment |-> TRUE, last_total_attempts |-> 0,
             file_is_empty |-> TRUE ]
      [] kind = "keyerror" ->
           [ is_first_entry_for_segment |-> TRUE, last_total_attempts |-> 0,
             file_is_empty |-> FALSE ]
      [] kind = "csv" ->
           IF rows = << >>
           THEN [ is_first_entry_for_segment |-> TRUE, last_total_attempts |-> 0,
                  file_is_empty |-> TRUE ]
           ELSE IF SegmentDf(rows, sid) = { }
           THEN [ is_first_entry_for_segment |-> TRUE, last_total_attempts |-> 0,
                  file_is_empty |-> FALSE ]
           ELSE [ is_first_entry_for_segment |-> FALSE,
                  last_total_attempts |-> LastTotalAttempts(rows[k]),
                  file_is_empty |-> FALSE ]
      [] OTHER ->
           [ is_first_entry_for_segment |-> FALSE, last_total_attempts |-> 0,
             file_is_empty |-> TRUE ]

\* Lines 184-245: what the read of the history leaves in the locals, with
\* k the row taken as last_entry.
ReadHistory(kind, rows, sid, k) ==
    CASE kind \in { "absent", "zero" } ->
           [ is_first_entry_for_segment |-> TRUE, last_total_attempts |-> 0,
             file_is_empty |-> TRUE ]
      [] kind = "blank" ->
           [ is_first_entry_for_segment |-> TRUE, last_total_attempts |-> 0,
             file_is_empty |-> TRUE ]
      [] kind = "keyerror" ->
           [ is_first_entry_for_segment |-> TRUE, last_total_attempts |-> 0,
             file_is_empty |-> FALSE ]
      [] kind = "csv" ->
           IF rows = << >>
           THEN [ is_first_entry_for_segment |-> TRUE, last_total_attempts |-> 0,
                  file_is_empty |-> TRUE ]
           ELSE IF SegmentDf(rows, sid) = { }
           THEN [ is_first_entry_for_segment |-> TRUE, last_total_attempts |-> 0,
                  file_is_empty |-> FALSE ]
           ELSE [ is_first_entry_for_segment |-> FALSE,
                  last_total_attempts |-> LastTotalAttempts(rows[k]),
                  file_is_empty |-> FALSE ]
      [] OTHER ->
           [ is_first_entry_for_segment |-> TRUE, last_total_attempts |-> 0,
             file_is_empty |-> TRUE ]

\* Mutants of DailyAttempts: the first-entry rule dropped, the subtraction
\* of the baseline dropped, the clamp dropped.
DailyAttempts_NoFirstEntryRule(is_first_entry_for_segment, current_total_attempts, last_total_attempts) ==
    IF current_total_attempts - last_total_attempts < 0 THEN 0
    ELSE current_total_attempts - last_total_attempts

DailyAttempts_NoBaseline(is_first_entry_for_segment, current_total_attempts, last_total_attempts) ==
    IF is_first_entry_for_segment THEN 0
    ELSE current_total_attempts

DailyAttempts_NoClamp(is_first_entry_for_segment, current_total_attempts, last_total_attempts) ==
    IF is_first_entry_for_segment THEN 0
    ELSE current_total_attempts - last_total_attempts

\* Lines 247-259.
DailyAttempts(is_first_entry_for_segment, current_total_attempts, last_total_attempts) ==
    IF is_first_entry_for_segment THEN 0
    ELSE IF current_total_attempts - last_total_attempts < 0 THEN 0
    ELSE current_total_attempts - last_total_attempts

\* Lines 278-296: mode 'w' with the header, or mode 'a'.
WriteLog(kind, rows, file_is_empty, new_data_row) ==
    IF file_is_empty \/ kind = "absent"
    THEN [ kind |-> "csv", rows |-> << new_data_row >> ]
    ELSE [ kind |-> kind, rows |-> Append(rows, new_data_row) ]

update_master_log(segment_data) ==
    LET id == IntOf(segment_data.id) IN
    IF id = << >>
    THEN UNCHANGED << log_kind, log_rows, calls >>
    ELSE LET sid == id[1]
             choices == IF log_kind = "csv" /\ SegmentDf(log_rows, sid) # { }
                        THEN LastEntries(log_rows, sid) ELSE { 0 }
         IN \E k \in choices :
              LET h == ReadHistory(log_kind, log_rows, sid, k)
                  daily == DailyAttempts(h.is_first_entry_for_segment,
                                         segment_data.effort_count,
                                         h.last_total_attempts)
                  new_data_row == Row(sid, today, << segment_data.effort_count >>, daily)
                  file == WriteLog(log_kind, log_rows, h.file_is_empty, new_data_row)
              IN /\ log_kind' = file.kind
                 /\ log_rows' = file.rows
                 /\ calls' = Append(calls,
                                    [ segment_data |-> segment_data,
                                      before |-> [ kind |-> log_kind, rows |-> log_rows ],
                                      row |-> new_data_row ])

(***************************************************************************)
(* generate_plot.  A saved chart is the file name (the id as configured)   *)
(* and the series handed to ax.plot.                                       *)
(***************************************************************************)
MinDate(rows, S) == CHOOSE d \in { rows[k].date : k \in S } :
                        \A k \in S : d <= rows[k].date

\* The orders sort_index may leave the rows S in: ascending by date, rows
\* of one date in any order.
RECURSIVE SortedOrders(_, _)
SortedOrders(rows, S) ==
    IF S = { } THEN { << >> }
    ELSE UNION { { << k >> \o t : t \in SortedOrders(rows, S \ { k }) } :
                 k \in { m \in S : rows[m].date = MinDate(rows, S) } }

\* Mutant of SeriesToPlot: the zero point on the first real date.
SeriesToPlot_ZeroOnFirstDate(rows, order) ==
    << [ date |-> MinDate(rows, { order[n] : n \in 1..Len(order) }),
         daily_attempts |-> 0 ] >>
    \o [ n \in 1..Len(order) |->
           [ date |-> rows[order[n]].date,
             daily_attempts |-> rows[order[n]].daily_attempts ] ]

\* Lines 338-343: the zero point one day before the first real date, then
\* the rows in the order given.
SeriesToPlot(rows, order) ==
    << [ date |-> MinDate(rows, { order[n] : n \in 1..Len(order) }) - 1,
         daily_attempts |-> 0 ] >>
    \o [ n \in 1..Len(order) |->
           [ date |-> rows[order[n]].date,
             daily_attempts |-> rows[order[n]].daily_attempts ] ]

\* Mutant of generate_plot: a segment with a single row is skipped.
generate_plot_NeedsTwoRows(segment_id) ==
    IF \/ log_kind # "csv"
       \/ IntOf(segment_id) = << >>
       \/ Cardinality(SegmentDf(log_rows, IntOf(segment_id)[1])) < 2
    THEN UNCHANGED plots
    ELSE \E order \in SortedOrders(log_rows, SegmentDf(log_rows, IntOf(segment_id)[1])) :
           plots' = Append(plots, [ file |-> segment_id,
                                    series |-> SeriesToPlot(log_rows, order) ])

generate_plot(segment_id) ==
    IF \/ log_kind # "csv"
       \/ IntOf(segment_id) = << >>
       \/ SegmentDf(log_rows, IntOf(segment_id)[1]) = { }
    THEN UNCHANGED plots
    ELSE \E order \in SortedOrders(log_rows, SegmentDf(log_rows, IntOf(segment_id)[1])) :
           plots' = Append(plots, [ file |-> segment_id,
                                    series |-> SeriesToPlot(log_rows, order) ])

\* Mutant of update_log: one loop that renders each segment's chart and
\* writes its row in the same iteration, with no plot loop after it.
update_log_PlotInLoop ==
    /\ pc = "update"
    /\ idx <= Len(all_segment_data_current)
    /\ update_master_log(all_segment_data_current[idx])
    /\ generate_plot(all_segment_data_current[idx].id)
    /\ IF idx < Len(all_segment_data_current)
       THEN /\ idx' = idx + 1
            /\ pc' = "update"
       ELSE /\ idx' = 1
            /\ pc' = "summary"
    /\ UNCHANGED << environ, today, segment_ids_to_process, access_token,
                    all_segment_data_current, processed_count, error_count,
                    exit_code, log0, runs, fetch_log >>

\* Lines 417-420: the update loop of __main__.
update_log ==
    /\ pc = "update"
    /\ idx <= Len(all_segment_data_current)
    /\ update_master_log(all_segment_data_current[idx])
    /\ IF idx < Len(all_segment_data_current)
       THEN /\ idx' = idx + 1
            /\ pc' = "update"
       ELSE /\ idx' = 1
            /\ pc' = "plot"
    /\ UNCHANGED << environ, today, segment_ids_to_process, access_token,
                    all_segment_data_current, processed_count, error_count,
                    plots, exit_code, log0, runs, fetch_log >>

render_plot ==
    /\ pc = "plot"
    /\ idx <= Len(all_segment_data_current)
    /\ generate_plot(all_segment_data_current[idx].id)
    /\ IF idx < Len(all_segment_data_current)
       THEN /\ idx' = idx + 1
            /\ pc' = "plot"
       ELSE /\ idx' = 1
            /\ pc' = "summary"
    /\ UNCHANGED << environ, today, segment_ids_to_process, access_token,
                    all_segment_data_current, processed_count, error_count,
                    log_kind, log_rows, exit_code, log0, runs, fetch_log, calls >>

\* Lines 428-433; the script ends and the interpreter exits with status 0.
summary ==
    /\ pc = "summary"
    /\ pc' = "done"
    /\ exit_code' = << 0 >>
    /\ UNCHANGED << environ, today, segment_ids_to_process, access_token, idx,
                    all_segment_data_current, processed_count, error_count,
                    log_kind, log_rows, plots, log0, runs, fetch_log, calls >>

\* Midnight passes between two calls of date.today() (line 163).
tick ==
    /\ pc \in { "fetch", "update" }
    /\ today < MaxDay
    /\ today' = today + 1
    /\ UNCHANGED << pc, environ, segment_ids_to_process, access_token, idx,
                    all_segment_data_current, processed_count, error_count,
                    log_kind, log_rows, plots, exit_code, log0, runs, fetch_log,
                    calls >>

(***************************************************************************)
(* The logs a run may find on disk.                                        *)
(***************************************************************************)
InitialLogs ==
    { [ kind |-> "absent", rows |-> << >> ],
      [ kind |-> "zero", rows |-> << >> ],
      [ kind |-> "blank", rows |-> << >> ],
      [ kind |-> "csv", rows |-> << >> ],
      \* two segments observed on days 1 and 2
      [ kind |-> "csv",
        rows |-> << Row(7, 1, << 1 >>, 0), Row(9, 1, << 2 >>, 0),
                    Row(7, 2, << 2 >>, 1) >> ],
      \* one segment observed yesterday and earlier today
      [ kind |-> "csv",
        rows |-> << Row(7, 2, << 0 >>, 0), Row(7, 3, << 1 >>, 1) >> ],
      \* rows out of date order, one day missing
      [ kind |-> "csv",
        rows |-> << Row(7, 0, << 0 >>, 0), Row(7, 3, << 2 >>, 1),
                    Row(7, 1, << 1 >>, 1) >> ],
      \* two rows of one date
      [ kind |-> "csv",
        rows |-> << Row(7, 2, << 1 >>, 0), Row(7, 2, << 3 >>, 2) >> ],
      \* the latest row has no total
      [ kind |-> "csv",
        rows |-> << Row(9, 1, << 1 >>, 0), Row(7, 2, NaN, 0) >> ],
      [ kind |-> "keyerror", rows |-> << Row(7, 2, << 2 >>, 0) >> ],
      [ kind |-> "corrupt",
        rows |-> << Row(7, 1, << 1 >>, 0), Row(9, 2, << 2 >>, 0) >> ] }

\* No second invocation: the run modelled by pc is alone.
NoRuns == [ proc |-> << >>, overlapped |-> FALSE ]

Init ==
    /\ pc = "load_config"
    /\ environ \in Environments
    /\ today = 3
    /\ segment_ids_to_process = << >>
    /\ access_token = << >>
    /\ idx = 0
    /\ all_segment_data_current = << >>
    /\ processed_count = 0
    /\ error_count = 0
    /\ \E log \in InitialLogs :
         /\ log_kind = log.kind
         /\ log_rows = log.rows
         /\ log0 = log
    /\ plots = << >>
    /\ exit_code = << >>
    /\ fetch_log = << >>
    /\ calls = << >>
    /\ runs = NoRuns

Next ==
    \/ load_config
    \/ refresh_access_token
    \/ fetch_segment
    \/ update_log
    \/ render_plot
    \/ summary
    \/ tick

Spec == Init /\ [][Next]_vars

(***************************************************************************)
(* Two invocations of the script against one log, each in the              *)
(* update_master_log call for one fetched snapshot.  A call is two steps:  *)
(* the read of the history (lines 163-276: date.today(), read_csv, the     *)
(* delta, the row string) and the write of the row (lines 278-296).  The   *)
(* script takes no lock, so the steps of the two invocations interleave    *)
(* freely.  The variables of the single run stay as they are.              *)
(***************************************************************************)
Invocations == { 1, 2 }

InitOverlap ==
    /\ pc = "overlap"
    /\ environ = [ env |-> NoEnv, file |-> NoFile ]
    /\ today = 3
    /\ segment_ids_to_process = << >>
    /\ access_token = << >>
    /\ idx = 0
    /\ all_segment_data_current = << >>
    /\ processed_count = 0
    /\ error_count = 0
    /\ \E log \in InitialLogs :
         /\ log_kind = log.kind
         /\ log_rows = log.rows
         /\ log0 = log
    /\ plots = << >>
    /\ exit_code = << >>
    /\ fetch_log = << >>
    /\ calls = << >>
    /\ runs = [ proc |-> [ p \in Invocations |-> [ at |-> "start" ] ],
                overlapped |-> FALSE ]

\* Lines 163-276 of the call of invocation p for a fetched snapshot.
overlap_read(p) ==
    /\ pc = "overlap"
    /\ runs.proc[p].at = "start"
    /\ \E segment_id \in { "7", "9" } : \E response \in Responses :
         LET res == get_segment_data(segment_id, response) IN
         /\ res.outcome = "ok"
         /\ LET segment_data == res.segment_data
                sid == IntOf(segment_data.id)[1]
                choices == IF log_kind = "csv" /\ SegmentDf(log_rows, sid) # { }
                           THEN LastEntries(log_rows, sid) ELSE { 0 }
            IN \E k \in choices :
                 LET h == ReadHistory(log_kind, log_rows, sid, k)
                     daily == DailyAttempts(h.is_first_entry_for_segment,
                                            segment_data.effort_count,
                                            h.last_total_attempts)
                 IN runs' = [ proc |-> [ runs.proc EXCEPT ![p] =
                                [ at |-> "read",
                                  segment_data |-> segment_data,
                                  before |-> [ kind |-> log_kind, rows |-> log_rows ],
                                  file_is_empty |-> h.file_is_empty,
                                  new_data_row |-> Row(sid, today,
                                                       << segment_data.effort_count >>,
                                                       daily) ] ],
                              overlapped |-> \/ runs.overlapped
                                             \/ \E q \in Invocations \ { p } :
                                                   runs.proc[q].at = "read" ]
    /\ UNCHANGED << pc, environ, today, segment_ids_to_process, access_token, idx,
                    all_segment_data_current, processed_count, error_count,
                    log_kind, log_rows, plots, exit_code, log0, fetch_log, calls >>

\* Lines 278-296 of the call of invocation p.  The mode is chosen from what
\* the read found (file_exists of line 181, file_is_empty), the row goes to
\* the file as it is now.
overlap_write(p) ==
    /\ pc = "overlap"
    /\ runs.proc[p].at = "read"
    /\ LET mine == runs.proc[p]
           file == WriteLog(IF mine.before.kind = "absent" THEN "absent" ELSE log_kind,
                            log_rows, mine.file_is_empty, mine.new_data_row)
       IN /\ log_kind' = file.kind
          /\ log_rows' = file.rows
          /\ calls' = Append(calls,
                             [ segment_data |-> mine.segment_data,
                               before |-> mine.before,
                               at_write |-> [ kind |-> log_kind, rows |-> log_rows ],
                               row |-> mine.new_data_row ])
    /\ runs' = [ runs EXCEPT !.proc[p] = [ at |-> "done" ] ]
    /\ UNCHANGED << pc, environ, today, segment_ids_to_process, access_token, idx,
                    all_segment_data_current, processed_count, error_count,
                    plots, exit_code, log0, fetch_log >>

\* Midnight passes while the invocations run.
overlap_tick ==
    /\ pc = "overlap"
    /\ today < MaxDay
    /\ today' = today + 1
    /\ UNCHANGED << pc, environ, segment_ids_to_process, access_token, idx,
                    all_segment_data_current, processed_count, error_count,
                    log_kind, log_rows, plots, exit_code, log0, fetch_log,
                    calls, runs >>

NextOverlap ==
    \/ \E p \in Invocations : overlap_read(p)
    \/ \E p \in Invocations : overlap_write(p)
    \/ overlap_tick

SpecOverlap == InitOverlap /\ [][NextOverlap]_vars

(***************************************************************************)
(* The properties.  A call is an entry of calls: the snapshot handed to    *)
(* update_master_log, the log before the call, and the row it wrote.       *)
(***************************************************************************)
Calls == { calls[n] : n \in 1..Len(calls) }

CallSid(c) == c.row.segment_id

\* The rows of the call's segment in the log before the call.
PriorRows(c) ==
    { c.before.rows[k] : k \in { j \in 1..Len(c.before.rows) :
                                   c.before.rows[j].segment_id = CallSid(c) } }

\* The prior rows of the greatest date.
MostRecentPrior(c) ==
    { r \in PriorRows(c) : \A q \in PriorRows(c) : q.date <= r.date }

HasTotal(r) == r.total_attempts_on_date # NaN

Total(r) == r.total_attempts_on_date[1]

\* C1. First-observation rule: a call that finds no record of its segment
\* in the log writes daily_attempts = 0, whatever the snapshot's cumulative
\* count and whatever the log holds for other segments.
C1_FirstObservation ==
    \A c \in Calls : PriorRows(c) = { } => c.row.daily_attempts = 0

\* A first observation with the largest cumulative count, in a readable
\* log that holds another segment's records.
C1_Witness ==
    \E c \in Calls :
        /\ PriorRows(c) = { }
        /\ c.before.kind = "csv"
        /\ c.before.rows # << >>
        /\ c.segment_data.effort_count = MaxCount
        /\ c.row.daily_attempts = 0

\* C2. Delta correctness: a call that finds records of its segment in a
\* readable log, with the snapshot's count at least the total of the most
\* recent one, writes daily_attempts = the snapshot's count minus that total.
C2_DeltaCorrect ==
    \A c \in Calls :
        ( /\ c.before.kind = "csv"
          /\ PriorRows(c) # { }
          /\ \A r \in MostRecentPrior(c) :
                HasTotal(r) /\ c.segment_data.effort_count >= Total(r) )
        => \E r \in MostRecentPrior(c) :
              c.row.daily_attempts = c.segment_data.effort_count - Total(r)

\* A positive delta against a single most recent record with a positive total.
C2_Witness ==
    \E c \in Calls :
        /\ c.before.kind = "csv"
        /\ \E r \in MostRecentPrior(c) :
              /\ MostRecentPrior(c) = { r }
              /\ HasTotal(r)
              /\ Total(r) > 0
              /\ c.segment_data.effort_count > Total(r)
              /\ c.row.daily_attempts = c.segment_data.effort_count - Total(r)

\* C3. Negative-delta clamp: no row written by update_master_log has a
\* negative daily_attempts, and a snapshot count below the total of the most
\* recent prior record gives daily_attempts = 0.
C3_Clamp ==
    \A c \in Calls :
        /\ c.row.daily_attempts >= 0
        /\ ( /\ c.before.kind = "csv"
             /\ PriorRows(c) # { }
             /\ \A r \in MostRecentPrior(c) :
                   HasTotal(r) /\ c.segment_data.effort_count < Total(r) )
           => c.row.daily_attempts = 0

\* A count that fell below the total the same run wrote one call earlier.
C3_Witness ==
    \E n \in 2..Len(calls) :
        /\ calls[n].row.segment_id = calls[n - 1].row.segment_id
        /\ calls[n].before.kind = "csv"
        /\ MostRecentPrior(calls[n]) = { calls[n - 1].row }
        /\ calls[n].segment_data.effort_count < calls[n - 1].segment_data.effort_count
        /\ calls[n].row.daily_attempts = 0

Written == [ n \in 1..Len(calls) |-> calls[n].row ]

\* C4. Append-only invariant, as claimed: from any log found at start,
\* unparseable ones included, the log is at all times the rows found at
\* start followed by the rows the calls wrote (nothing lost or changed, the
\* count is the prior count plus the number of calls).
C4_AppendOnly ==
    log_rows = log0.rows \o Written

\* C5. Most-recent-by-date selection: with records of the segment in a
\* readable log, the baseline is the total of a record of the greatest
\* date, wherever it stands in the file and whatever dates are missing:
\* daily_attempts is the clamped difference to that total (0 for NaN).
C5_MostRecentByDate ==
    \A c \in Calls :
        ( c.before.kind = "csv" /\ PriorRows(c) # { } )
        => \E r \in MostRecentPrior(c) :
              LET baseline == IF HasTotal(r) THEN Total(r) ELSE 0
                  delta == c.segment_data.effort_count - baseline
              IN c.row.daily_attempts = IF delta < 0 THEN 0 ELSE delta

\* The record of the greatest date is neither the first nor the last row of
\* the file, a day is missing before it, and the delta written is the one
\* against its total and against no other record's.
C5_Witness ==
    \E c \in Calls :
        /\ c.before.kind = "csv"
        /\ \E r \in MostRecentPrior(c) :
              /\ MostRecentPrior(c) = { r }
              /\ r # c.before.rows[Len(c.before.rows)]
              /\ r # c.before.rows[1]
              /\ \A q \in PriorRows(c) : q.date # r.date - 1
              /\ c.row.daily_attempts = c.segment_data.effort_count - Total(r)
              /\ \A q \in PriorRows(c) \ { r } :
                    c.row.daily_attempts # c.segment_data.effort_count - Total(q)

Unparseable(kind) == kind \in { "blank", "keyerror", "corrupt" }

\* C6. Unparseable history: a call that finds a log it cannot parse writes
\* a row with daily_attempts = 0, and the run goes on: once the update loop
\* is over every fetched segment has had its call, and the run ends with
\* status 0.
C6_UnparseableHistory ==
    /\ \A c \in Calls : Unparseable(c.before.kind) => c.row.daily_attempts = 0
    /\ ( Unparseable(log0.kind) /\ pc \in { "plot", "summary", "done" } )
       => Len(calls) = Len(all_segment_data_current)
    /\ ( Unparseable(log0.kind) /\ pc = "done" ) => exit_code = << 0 >>

\* A run over a corrupt log that held a record of the segment: the first
\* call wrote 0 for a positive count, a later call followed, the run ended.
C6_Witness ==
    /\ pc = "done"
    /\ log0.kind = "corrupt"
    /\ Len(calls) >= 2
    /\ PriorRows(calls[1]) # { }
    /\ calls[1].segment_data.effort_count > 0
    /\ calls[1].row.daily_attempts = 0

\* The configured ids whose fetch the API answered with a segment body, in
\* order of position, among the first n positions.
RECURSIVE FetchedIds(_)
FetchedIds(n) ==
    IF n = 0 THEN << >>
    ELSE IF fetch_log[n] = "json"
         THEN Append(FetchedIds(n - 1), segment_ids_to_process[n])
         ELSE FetchedIds(n - 1)

Failed == { n \in 1..Len(fetch_log) : fetch_log[n] # "json" }

UpdateLoopOver == pc \in { "plot", "summary", "done" }

\* C7. Fetch-failure isolation: whichever positions fail (None or an
\* exception), every position is fetched, the snapshots kept are those of
\* the positions that succeeded, and the update loop makes one call, writing
\* one row, for each of them and none for a failed position.
C7_FetchFailureIsolation ==
    /\ [ n \in 1..Len(all_segment_data_current) |-> all_segment_data_current[n].id ]
          = FetchedIds(Len(fetch_log))
    /\ pc \in { "update", "plot", "summary", "done" }
       => Len(fetch_log) = Len(segment_ids_to_process)
    /\ Len(calls) <= Len(FetchedIds(Len(fetch_log)))
    /\ \A n \in 1..Len(calls) :
          calls[n].segment_data.id = FetchedIds(Len(fetch_log))[n]
    /\ UpdateLoopOver
       => /\ [ n \in 1..Len(calls) |-> calls[n].segment_data.id ]
                = FetchedIds(Len(fetch_log))
          /\ \A n \in 1..Len(calls) :
                << calls[n].row.segment_id >> = IntOf(calls[n].segment_data.id)

\* Three positions, the first fails by None, the second by an exception,
\* the third is fetched and has its row.
C7_Witness ==
    /\ pc = "done"
    /\ fetch_log = << "request_exception", "exception", "json" >>
    /\ Len(calls) = 1
    /\ calls[1].segment_data.id = segment_ids_to_process[3]
    /\ log_rows # << >>
    /\ log_rows[Len(log_rows)] = calls[1].row

\* C8. Partial-failure accounting: a run of n positions against a readable
\* log, k of them failing, ends with status 0, n-k rows appended to the
\* log, n-k charts saved, processed = n-k and failed = k.
C8_PartialFailureAccounting ==
    ( pc = "done" /\ log0.kind = "csv" )
    => LET n == Len(segment_ids_to_process)
           k == Cardinality(Failed)
       IN /\ exit_code = << 0 >>
          /\ Len(fetch_log) = n
          /\ Len(calls) = n - k
          /\ log_rows = log0.rows \o Written
          /\ Len(plots) = n - k
          /\ processed_count = n - k
          /\ error_count = k
          /\ processed_count + error_count = n

\* Three positions, the second fails: two rows, two charts, one failure.
C8_Witness ==
    /\ pc = "done"
    /\ log0.kind = "csv"
    /\ log0.rows # << >>
    /\ fetch_log = << "json", "request_exception", "json" >>
    /\ exit_code = << 0 >>
    /\ Len(log_rows) = Len(log0.rows) + 2
    /\ Len(plots) = 2
    /\ processed_count = 2
    /\ error_count = 1

EnvSupplies(e) ==
    /\ e.env.STRAVA_CLIENT_ID # ""
    /\ e.env.STRAVA_CLIENT_SECRET # ""
    /\ e.env.STRAVA_REFRESH_TOKEN # ""
    /\ e.env.STRAVA_SEGMENT_IDS # << >>

FileSupplies(e) ==
    /\ e.file.kind = "ini"
    /\ "Strava" \in DOMAIN e.file.sections
    /\ \A key \in { "client_id", "client_secret", "refresh_token", "segment_ids" } :
          key \in DOMAIN e.file.sections.Strava

NothingDone ==
    /\ fetch_log = << >>
    /\ calls = << >>
    /\ plots = << >>
    /\ log_kind = log0.kind
    /\ log_rows = log0.rows

\* C9. Fatal errors stop the run before any work: with the configuration
\* missing or the refresh failed the run gets no further than the exit with
\* a non-zero status, and a run that exits that way has fetched nothing,
\* written nothing and rendered nothing.
C9_FatalErrors ==
    /\ ( ~ EnvSupplies(environ) /\ ~ FileSupplies(environ) )
       => pc \in { "load_config", "exit" }
    /\ access_token # << "token" >> => pc \in { "load_config", "refresh", "exit" }
    /\ pc = "exit" => exit_code = << 1 >> /\ NothingDone
    /\ pc \in { "load_config", "refresh" } => NothingDone
    /\ exit_code = << 1 >> => pc = "exit"

\* A run whose configuration was complete and whose refresh failed.
C9_Witness ==
    /\ pc = "exit"
    /\ exit_code = << 1 >>
    /\ segment_ids_to_process # << >>
    /\ access_token = << >>
    /\ log0.rows # << >>

\* The rows of the chart's segment in the log (the log no longer changes
\* once the first chart is rendered).
ChartRows(p) ==
    { k \in 1..Len(log_rows) : << log_rows[k].segment_id >> = IntOf(p.file) }

Point(r) == [ date |-> r.date, daily_attempts |-> r.daily_attempts ]

\* C10. Renderer baseline: the series of every chart is the point
\* (D-1, 0), D the earliest date of the segment's rows, then exactly the
\* segment's (date, daily_attempts) points in ascending date order; the
\* zero point is the only one added and lies before every real point.
C10_RendererBaseline ==
    \A n \in 1..Len(plots) :
        LET p == plots[n]
            series == p.series
            real == ChartRows(p)
        IN /\ real # { }
           /\ Len(series) = Cardinality(real) + 1
           /\ series[1].daily_attempts = 0
           /\ \A k \in real : series[1].date + 1 <= log_rows[k].date
           /\ \E k \in real : series[1].date + 1 = log_rows[k].date
           /\ \A m \in 2..Len(series) :
                 /\ series[1].date < series[m].date
                 /\ m < Len(series) => series[m].date <= series[m + 1].date
                 /\ Cardinality({ j \in 2..Len(series) : series[j] = series[m] })
                      = Cardinality({ k \in real : Point(log_rows[k]) = series[m] })

\* A chart of a segment whose rows stand out of date order in the file,
\* with a positive first real point.
C10_Witness ==
    \E n \in 1..Len(plots) :
        /\ Len(plots[n].series) >= 4
        /\ \E k \in ChartRows(plots[n]) :
              \E j \in ChartRows(plots[n]) :
                 k < j /\ log_rows[j].date < log_rows[k].date
        /\ plots[n].series[2].date = plots[n].series[1].date + 1
        /\ plots[n].series[1].daily_attempts = 0

\* C11. Data-integrity fallback for a missing total, as claimed: a call
\* that finds records of its segment in a readable log, the most recent of
\* them without a usable total_attempts_on_date, writes daily_attempts = 0.
C11_MissingTotalZeroDelta ==
    \A c \in Calls :
        ( /\ c.before.kind = "csv"
          /\ PriorRows(c) # { }
          /\ \A r \in MostRecentPrior(c) : ~ HasTotal(r) )
        => c.row.daily_attempts = 0

\* The rows of the log right after the n-th call.
AfterRows(n) == IF n < Len(calls) THEN calls[n + 1].before.rows ELSE log_rows

RowsOf(rows, sid, d) ==
    { k \in 1..Len(rows) : rows[k].segment_id = sid /\ rows[k].date = d }

\* Calls m and n are the first and the second call for one segment on one
\* day: no row of the segment carried that date or a later one before m,
\* and no call for the segment lies between them.
SameDayRepeat(m, n) ==
    /\ m < n
    /\ calls[m].row.segment_id = calls[n].row.segment_id
    /\ calls[m].row.date = calls[n].row.date
    /\ \A r \in PriorRows(calls[m]) : r.date < calls[m].row.date
    /\ \A j \in (m + 1)..(n - 1) : calls[j].row.segment_id # calls[m].row.segment_id
    /\ calls[n].before.kind = "csv"

Clamped(delta) == IF delta < 0 THEN 0 ELSE delta

\* C12. Same-day repeat: after two calls for one segment on one day the
\* log holds two rows of that segment and date, the two rows written, and
\* the second has daily_attempts = max(0, second count - first count).
C12_SameDayRepeat ==
    \A n \in 1..Len(calls) : \A m \in 1..Len(calls) :
        SameDayRepeat(m, n)
        => LET sid == calls[n].row.segment_id
               d == calls[n].row.date
               after == AfterRows(n)
           IN /\ Cardinality(RowsOf(after, sid, d)) = 2
              /\ \E i \in RowsOf(after, sid, d) : \E j \in RowsOf(after, sid, d) :
                    i < j /\ after[i] = calls[m].row /\ after[j] = calls[n].row
              /\ calls[n].row.daily_attempts
                    = Clamped(calls[n].segment_data.effort_count
                              - calls[m].segment_data.effort_count)

\* A same-day repeat after a record of an earlier day, where the delta
\* against the first same-day row differs from the one against that day.
C12_Witness ==
    \E n \in 1..Len(calls) : \E m \in 1..Len(calls) :
        /\ SameDayRepeat(m, n)
        /\ calls[n].row.daily_attempts > 0
        /\ \E r \in PriorRows(calls[m]) :
              /\ HasTotal(r)
              /\ calls[n].row.daily_attempts
                    # Clamped(calls[n].segment_data.effort_count - Total(r))

\* C13. Phase ordering: a chart exists only once the update loop has made
\* its last call, and the series of every chart holds the row written in
\* this run for the chart's segment.
C13_PhaseOrdering ==
    /\ plots # << >>
       => /\ UpdateLoopOver
          /\ Len(calls) = Len(all_segment_data_current)
    /\ \A n \in 1..Len(plots) : \A c \in Calls :
          << c.row.segment_id >> = IntOf(plots[n].file)
          => \E m \in 2..Len(plots[n].series) : plots[n].series[m] = Point(c.row)

\* The first chart of a run that made two calls for the chart's segment:
\* both rows are in the series.
C13_Witness ==
    /\ Len(plots) >= 1
    /\ Len(calls) >= 2
    /\ << calls[1].row.segment_id >> = IntOf(plots[1].file)
    /\ << calls[Len(calls)].row.segment_id >> = IntOf(plots[1].file)
    /\ calls[1].row # calls[Len(calls)].row
    /\ \E m \in 2..Len(plots[1].series) : plots[1].series[m] = Point(calls[1].row)
    /\ \E m \in 2..Len(plots[1].series) :
          plots[1].series[m] = Point(calls[Len(calls)].row)

SegmentRecords(rows, sid) == SelectSeq(rows, LAMBDA r : r.segment_id = sid)

RECURSIVE SumDaily(_)
SumDaily(records) ==
    IF records = << >> THEN 0
    ELSE Head(records).daily_attempts + SumDaily(Tail(records))

\* The records are what sequential calls on non-decreasing dates write from
\* a segment's first observation on.
Accumulated(records) ==
    /\ \A n \in 1..Len(records) : HasTotal(records[n])
    /\ records # << >> => records[1].daily_attempts = 0
    /\ \A n \in 2..Len(records) :
          /\ records[n - 1].date <= records[n].date
          /\ records[n].daily_attempts = Clamped(Total(records[n]) - Total(records[n - 1]))

NeverDecreased(records) ==
    \A n \in 2..Len(records) : Total(records[n - 1]) <= Total(records[n])

Readable(kind) == kind \in { "absent", "zero", "csv" }

SegmentIds == { 7, 9 }

\* C15. Telescoping sum, as claimed: from a readable log that sequential
\* calls on non-decreasing dates wrote, after any further calls, the sum of
\* daily_attempts over a segment's records is at least the total of its
\* latest record minus the total of its first, and equal to it when the
\* counts never decreased; every row written stores the snapshot's count.
C15_TelescopingSum ==
    ( /\ Readable(log0.kind)
      /\ \A sid \in SegmentIds : Accumulated(SegmentRecords(log0.rows, sid)) )
    => /\ \A c \in Calls :
             c.row.total_attempts_on_date = << c.segment_data.effort_count >>
       /\ \A sid \in SegmentIds :
             LET records == SegmentRecords(log_rows, sid) IN
             records # << >>
             => /\ SumDaily(records)
                     >= Total(records[Len(records)]) - Total(records[1])
                /\ NeverDecreased(records)
                   => SumDaily(records)
                        = Total(records[Len(records)]) - Total(records[1])

\* The values of daily_attempts a snapshot count and a set of records of
\* the snapshot's own segment allow.
DailyFrom(count, own) ==
    IF own = { } THEN { 0 }
    ELSE { Clamped(count - (IF HasTotal(r) THEN Total(r) ELSE 0)) :
             r \in { q \in own : \A o \in own : o.date <= q.date } }

OtherRecords(rows, sid) == SelectSeq(rows, LAMBDA r : r.segment_id # sid)

\* C16. Segment independence: with a readable log the row a call writes is
\* settled by the snapshot and the records of the snapshot's segment alone,
\* whatever the log holds for other segments, and the call leaves the
\* records of every other segment as they were.
C16_SegmentIndependence ==
    \A n \in 1..Len(calls) :
        LET c == calls[n]
            sid == c.row.segment_id
        IN Readable(c.before.kind)
           => /\ c.row.daily_attempts
                    \in DailyFrom(c.segment_data.effort_count, PriorRows(c))
              /\ c.row.total_attempts_on_date = << c.segment_data.effort_count >>
              /\ OtherRecords(AfterRows(n), sid) = OtherRecords(c.before.rows, sid)
              /\ SegmentRecords(AfterRows(n), sid)
                    = Append(SegmentRecords(c.before.rows, sid), c.row)

\* A call for a segment with records of its own, in a log whose latest
\* record belongs to another segment with another total.
C16_Witness ==
    \E n \in 1..Len(calls) :
        LET c == calls[n] IN
        /\ c.before.kind = "csv"
        /\ PriorRows(c) # { }
        /\ OtherRecords(c.before.rows, c.row.segment_id) # << >>
        /\ \E o \in 1..Len(c.before.rows) :
              /\ c.before.rows[o].segment_id # c.row.segment_id
              /\ HasTotal(c.before.rows[o])
              /\ \A r \in PriorRows(c) : r.date < c.before.rows[o].date
              /\ c.row.daily_attempts
                    # Clamped(c.segment_data.effort_count - Total(c.before.rows[o]))
        /\ c.row.daily_attempts > 0

\* The records of the call's segment in the log at the moment of its
\* write, and the most recent of them.
RowsAtWrite(c) ==
    { c.at_write.rows[k] : k \in { j \in 1..Len(c.at_write.rows) :
                                     c.at_write.rows[j].segment_id = c.row.segment_id } }

PrecedingAtWrite(c) ==
    { r \in RowsAtWrite(c) : \A q \in RowsAtWrite(c) : q.date <= r.date }

\* The calls C14 speaks of: the log is a table at the write, it holds
\* records of the call's segment, and the most recent of them have a total.
HasPreceding(c) ==
    /\ c.at_write.kind = "csv"
    /\ RowsAtWrite(c) # { }
    /\ \A r \in PrecedingAtWrite(c) : HasTotal(r)

====
